---- MODULE Spec2Model ----
(***************************************************************************)
(* Release-branch generator step: the orchestrator (main), the version     *)
(* code mutator (updateBuildNo), the tag file mutator (updateTagFile), the *)
(* release branch forger (forkNewReleaseBranch) and the tag processor      *)
(* (processTagFile) with the git helpers they call.                        *)
(*                                                                         *)
(* Text is modelled as sequences of one-character strings; NL is byte 10   *)
(* and CR is byte 13.  The git library and the file system are the         *)
(* environment: each call into the git library chooses its outcome         *)
(* nondeterministically among the outcomes the call can have.  The two     *)
(* tracked files exist and their Seek, Truncate and Flush succeed; digit   *)
(* runs are short enough to fit an int.                                    *)
(***************************************************************************)
EXTENDS Integers, Sequences, FiniteSets, TLC

VARIABLES
    cfg,          \* Config: the parsed environment (constant during a run)
    orig,         \* content of the two tracked files right after the clone
    verFile,      \* bytes of the version code file in the working tree
    tagFile,      \* bytes of the tag file in the working tree
    pc,           \* position of main
    exitCode,     \* process exit code, -1 while the process runs
    logged,       \* diagnostics written by fail(), in order
    trace,        \* steps of main attempted so far, in order
    failed,       \* steps that returned an error, called fail() or panicked
    head,         \* branch the working tree is on
    localRefs,    \* refs/heads/* of the clone: branch -> commit
    remoteRefs,   \* refs/heads/* of the remote: branch -> commit
    commits,      \* commit objects: id -> [parent, msg, tree]
    index,        \* staging area: the tree the next commit records
    localTags,    \* refs/tags/* of the clone: name -> commit
    remoteTags,   \* refs/tags/* of the remote: name -> commit
    branchName,   \* result of forkNewReleaseBranch held by main
    tags,         \* processTagFile: pending base names read from the file
    tagsToPush,   \* processTagFile: names queued for the push loop
    tagsCreated,  \* names handed to gitTag, in order
    tagErrs,      \* causes of the errors gitTag returned, in order
    tagsPushed,   \* names handed to gitPushTag, in order
    pushes        \* every repo.Push so far: its ref, what Push reported and
                  \* whether the helper returned an error, in order

vars == <<cfg, orig, verFile, tagFile, pc, exitCode, logged, trace, failed,
          head, localRefs, remoteRefs, commits, index, localTags, remoteTags,
          branchName, tags, tagsToPush, tagsCreated, tagErrs, tagsPushed,
          pushes>>

fileVars == <<verFile, tagFile>>
gitVars == <<head, localRefs, remoteRefs, commits, index, localTags, remoteTags>>
tagProcVars == <<tags, tagsToPush, tagsCreated, tagErrs, tagsPushed>>

----------------------------------------------------------------------------
(* Bounds of the generated inputs *)

\* longest generated version file, in bytes
MaxVerLen == 5
\* most lines in a generated tag file
MaxTagLines == 3

----------------------------------------------------------------------------
(* Characters, strings, integers *)

NL == "\n"
CR == "\r"
NIL == "nil"

Digits == {"0", "1", "2", "3", "4", "5", "6", "7", "8", "9"}

DigitVal(c) ==
    CASE c = "0" -> 0 [] c = "1" -> 1 [] c = "2" -> 2 [] c = "3" -> 3
      [] c = "4" -> 4 [] c = "5" -> 5 [] c = "6" -> 6 [] c = "7" -> 7
      [] c = "8" -> 8 [] c = "9" -> 9

DigitChar(d) == <<"0", "1", "2", "3", "4", "5", "6", "7", "8", "9">>[d + 1]

IsDigits(s) == Len(s) > 0 /\ \A i \in 1..Len(s) : s[i] \in Digits

RECURSIVE DigitsValue(_)
DigitsValue(s) ==
    IF s = <<>> THEN 0
    ELSE 10 * DigitsValue(SubSeq(s, 1, Len(s) - 1)) + DigitVal(s[Len(s)])

\* strconv.Atoi: the value and whether parsing failed (value 0 on failure)
Atoi(s) == IF IsDigits(s) THEN [val |-> DigitsValue(s), err |-> FALSE]
           ELSE [val |-> 0, err |-> TRUE]

RECURSIVE Itoa(_)
\* strconv.Itoa of a non-negative integer
Itoa(n) == IF n < 10 THEN <<DigitChar(n)>>
           ELSE Itoa(n \div 10) \o <<DigitChar(n % 10)>>

HasPrefixAt(s, p, i) ==
    /\ i + Len(p) - 1 <= Len(s)
    /\ \A k \in 1..Len(p) : s[i + k - 1] = p[k]

\* strings.HasPrefix
HasPrefix(s, p) == HasPrefixAt(s, p, 1)

\* strings.Index, 1-based; 0 when absent
Index(s, p) ==
    IF \E i \in 1..(Len(s) + 1) : HasPrefixAt(s, p, i)
    THEN CHOOSE i \in 1..(Len(s) + 1) :
            /\ HasPrefixAt(s, p, i)
            /\ \A j \in 1..(i - 1) : ~HasPrefixAt(s, p, j)
    ELSE 0

\* strings.Replace(s, old, new, 1)
ReplaceFirst(s, old, new) ==
    LET i == Index(s, old) IN
    IF i = 0 THEN s
    ELSE SubSeq(s, 1, i - 1) \o new \o SubSeq(s, i + Len(old), Len(s))

\* length of the digit run that starts at position i (0 when s[i] is no digit)
RECURSIVE DigitRunLen(_, _)
DigitRunLen(s, i) ==
    IF i > Len(s) \/ s[i] \notin Digits THEN 0 ELSE 1 + DigitRunLen(s, i + 1)

\* regexp `\d+`.FindString: the leftmost, longest digit run; "" when none
FindDigits(s) ==
    IF \E i \in 1..Len(s) : s[i] \in Digits
    THEN LET i == CHOOSE i \in 1..Len(s) :
                     /\ s[i] \in Digits
                     /\ \A j \in 1..(i - 1) : s[j] \notin Digits
         IN SubSeq(s, i, i + DigitRunLen(s, i) - 1)
    ELSE <<>>

WhiteSpace == {" ", CR, "\t"}

RECURSIVE TrimLeft(_)
TrimLeft(s) == IF s # <<>> /\ s[1] \in WhiteSpace THEN TrimLeft(Tail(s)) ELSE s

RECURSIVE TrimRight(_)
TrimRight(s) ==
    IF s # <<>> /\ s[Len(s)] \in WhiteSpace
    THEN TrimRight(SubSeq(s, 1, Len(s) - 1)) ELSE s

\* strings.TrimSpace
TrimSpace(s) == TrimRight(TrimLeft(s))

----------------------------------------------------------------------------
(* Files: bufio.Scanner with the default ScanLines split, and the rewrite *)

DropCR(s) == IF s # <<>> /\ s[Len(s)] = CR THEN SubSeq(s, 1, Len(s) - 1) ELSE s

RECURSIVE ScanLines(_)
\* the lines reader.Scan()/reader.Text() yield for a file
ScanLines(f) ==
    IF f = <<>> THEN <<>>
    ELSE IF \E i \in 1..Len(f) : f[i] = NL
         THEN LET i == CHOOSE i \in 1..Len(f) :
                          f[i] = NL /\ \A j \in 1..(i - 1) : f[j] # NL
              IN <<DropCR(SubSeq(f, 1, i - 1))>>
                     \o ScanLines(SubSeq(f, i + 1, Len(f)))
         ELSE <<DropCR(f)>>

RECURSIVE JoinLines(_)
\* every line followed by byte 10
JoinLines(ls) ==
    IF ls = <<>> THEN <<>> ELSE Head(ls) \o <<NL>> \o JoinLines(Tail(ls))

\* Seek(0, 0) and write over the old bytes: what lies past the written bytes
\* stays in the file
OverwriteFromStart(old, new) ==
    IF Len(new) >= Len(old) THEN new
    ELSE new \o SubSeq(old, Len(new) + 1, Len(old))

\* Truncate(0), Seek(0, 0) and write
TruncateAndWrite(old, new) == new

----------------------------------------------------------------------------
(* Regular expressions and templates of the configuration.                 *)
(* A version code regex is a literal, optionally followed by `\d+`; a      *)
(* regex that does not compile has ok = FALSE.  A version code template is *)
(* `{{add . delta}}` (kind "add"), text that renders to something that is  *)
(* no integer (kind "text"), or text that does not parse (kind "invalid"). *)
(* A tag file template is `{{add .Major a}}.{{add .Minor b}}.{{add .Rev c}}`*)
(* (a = b = c = 0 is `{{.Major}}.{{.Minor}}.{{.Rev}}`), or does not parse.  *)

\* regexp.MatchString: the regex matches somewhere in the line
MatchString(re, line) ==
    \E i \in 1..(Len(line) + 1) :
        /\ HasPrefixAt(line, re.lit, i)
        /\ re.digits => DigitRunLen(line, i + Len(re.lit)) > 0

\* t1.Execute(&out, verCode) for a template that parsed
ExecuteVerCode(tmpl, verCode) ==
    IF tmpl.kind = "add" THEN Itoa(verCode + tmpl.delta) ELSE <<"v">>

\* `(?P<Major>\d+)\.(?P<Minor>\d+)\.(?P<Rev>\d+)` anchored at position s
SemverAt(line, s) ==
    LET n1 == DigitRunLen(line, s)
        p2 == s + n1 + 1
        n2 == DigitRunLen(line, p2)
        p3 == p2 + n2 + 1
        n3 == DigitRunLen(line, p3)
    IN [ok    |-> /\ n1 > 0 /\ s + n1 <= Len(line) /\ line[s + n1] = "."
                  /\ n2 > 0 /\ p2 + n2 <= Len(line) /\ line[p2 + n2] = "."
                  /\ n3 > 0,
        Major |-> SubSeq(line, s, s + n1 - 1),
        Minor |-> SubSeq(line, p2, p2 + n2 - 1),
        Rev   |-> SubSeq(line, p3, p3 + n3 - 1)]

\* tagFileRe.FindStringSubmatch folded into paramsMap: the named groups of
\* the leftmost match, each "" when the line has no match
FindStringSubmatch(line) ==
    IF \E s \in 1..Len(line) : SemverAt(line, s).ok
    THEN LET s == CHOOSE s \in 1..Len(line) :
                     /\ SemverAt(line, s).ok
                     /\ \A j \in 1..(s - 1) : ~SemverAt(line, j).ok
         IN SemverAt(line, s)
    ELSE [ok |-> FALSE, Major |-> <<>>, Minor |-> <<>>, Rev |-> <<>>]

\* a rendering that puts Rev where Minor belongs and Minor where Rev belongs
ExecuteSemver_SwapsMinorRev(tmpl, semver) ==
    Itoa(semver.Major + tmpl.dMajor) \o <<".">>
        \o Itoa(semver.Rev + tmpl.dRev) \o <<".">>
        \o Itoa(semver.Minor + tmpl.dMinor)

\* t1.Execute(&out, semver) for a template that parsed
ExecuteSemver(tmpl, semver) ==
    Itoa(semver.Major + tmpl.dMajor) \o <<".">>
        \o Itoa(semver.Minor + tmpl.dMinor) \o <<".">>
        \o Itoa(semver.Rev + tmpl.dRev)

----------------------------------------------------------------------------
(* updateBuildNo *)

\* the body of `if buildVersionRe.MatchString(line)` for a line whose digit
\* run parsed and a template that parsed
updateBuildNoLine(line, tmpl) ==
    LET match      == FindDigits(line)
        verCode    == Atoi(match).val
        out        == ExecuteVerCode(tmpl, verCode)
        verCodeNew == Atoi(out).val
    IN ReplaceFirst(line, match, Itoa(verCodeNew))

RECURSIVE updateBuildNoScan(_, _, _)
\* the `for reader.Scan()` loop: "panic" when it panics (Atoi of the digit
\* run fails, or Execute runs on the nil template a failed Parse left),
\* else the collected lines and the replaced flag
updateBuildNoScan(ls, re, tmpl) ==
    IF ls = <<>> THEN [outcome |-> "ok", lines |-> <<>>, replaced |-> FALSE]
    ELSE LET line == Head(ls) IN
         IF MatchString(re, line)
         THEN IF Atoi(FindDigits(line)).err \/ tmpl.kind = "invalid"
              THEN [outcome |-> "panic", lines |-> <<>>, replaced |-> TRUE]
              ELSE LET rest == updateBuildNoScan(Tail(ls), re, tmpl) IN
                   IF rest.outcome = "panic" THEN rest
                   ELSE [outcome  |-> "ok",
                         lines    |-> <<updateBuildNoLine(line, tmpl)>> \o rest.lines,
                         replaced |-> TRUE]
         ELSE LET rest == updateBuildNoScan(Tail(ls), re, tmpl) IN
              IF rest.outcome = "panic" THEN rest
              ELSE [rest EXCEPT !.lines = <<line>> \o rest.lines]

\* the write-back of updateBuildNo: Seek(0, 0), then every line and byte 10
updateBuildNoWrite(old, ls) == OverwriteFromStart(old, JoinLines(ls))

\* updateBuildNo with the write-back moved before the `if !replaced` check
updateBuildNoCall_WritesBeforeCheck(file, re, tmpl) ==
    IF ~re.ok THEN [outcome |-> "err", file |-> file]
    ELSE LET scan == updateBuildNoScan(ScanLines(file), re, tmpl) IN
         IF scan.outcome = "panic" THEN [outcome |-> "panic", file |-> file]
         ELSE [outcome |-> IF scan.replaced THEN "nil" ELSE "fail",
               file |-> updateBuildNoWrite(file, scan.lines)]

\* updateBuildNo as a whole: how it ends and the file it leaves
\*   "err"   returns the regexp.Compile error     "panic" panics
\*   "fail"  calls fail("failed")                  "nil"   returns nil
updateBuildNoCall(file, re, tmpl) ==
    IF ~re.ok THEN [outcome |-> "err", file |-> file]
    ELSE LET scan == updateBuildNoScan(ScanLines(file), re, tmpl) IN
         IF scan.outcome = "panic" THEN [outcome |-> "panic", file |-> file]
         ELSE IF ~scan.replaced THEN [outcome |-> "fail", file |-> file]
         ELSE [outcome |-> "nil", file |-> updateBuildNoWrite(file, scan.lines)]

----------------------------------------------------------------------------
(* updateTagFile *)

\* `len(line) > 0 && !strings.HasPrefix(line, "#")`
Qualifies(line) == Len(line) > 0 /\ ~HasPrefix(line, <<"#">>)

\* the new text of a qualifying line whose groups parsed
updateTagFileLine(line, tmpl) ==
    LET m == FindStringSubmatch(line)
        semver == [Major |-> Atoi(m.Major).val, Minor |-> Atoi(m.Minor).val,
                   Rev |-> Atoi(m.Rev).val]
    IN ExecuteSemver(tmpl, semver)

RECURSIVE updateTagFileScan_FirstOnly(_, _)
\* the loop with `&& !replaced` in its condition: only the first qualifying
\* line is parsed and rewritten
updateTagFileScan_FirstOnly(ls, tmpl) ==
    IF ls = <<>> THEN [outcome |-> "ok", lines |-> <<>>, replaced |-> FALSE]
    ELSE LET line == Head(ls) IN
         IF Qualifies(line)
         THEN IF Atoi(FindStringSubmatch(line).Rev).err
              THEN [outcome |-> "fail", lines |-> <<>>, replaced |-> FALSE]
              ELSE IF ~tmpl.ok
              THEN [outcome |-> "panic", lines |-> <<>>, replaced |-> FALSE]
              ELSE [outcome  |-> "ok",
                    lines    |-> <<updateTagFileLine(line, tmpl)>> \o Tail(ls),
                    replaced |-> TRUE]
         ELSE LET rest == updateTagFileScan_FirstOnly(Tail(ls), tmpl) IN
              IF rest.outcome # "ok" THEN rest
              ELSE [rest EXCEPT !.lines = <<line>> \o rest.lines]

RECURSIVE updateTagFileScan(_, _)
\* the `for reader.Scan()` loop: "fail" when a qualifying line makes the
\* Atoi of Rev fail, "panic" when Execute runs on a nil template
updateTagFileScan(ls, tmpl) ==
    IF ls = <<>> THEN [outcome |-> "ok", lines |-> <<>>, replaced |-> FALSE]
    ELSE LET line == Head(ls) IN
         IF Qualifies(line)
         THEN IF Atoi(FindStringSubmatch(line).Rev).err
              THEN [outcome |-> "fail", lines |-> <<>>, replaced |-> FALSE]
              ELSE IF ~tmpl.ok
              THEN [outcome |-> "panic", lines |-> <<>>, replaced |-> FALSE]
              ELSE LET rest == updateTagFileScan(Tail(ls), tmpl) IN
                   IF rest.outcome # "ok" THEN rest
                   ELSE [outcome  |-> "ok",
                         lines    |-> <<updateTagFileLine(line, tmpl)>> \o rest.lines,
                         replaced |-> TRUE]
         ELSE LET rest == updateTagFileScan(Tail(ls), tmpl) IN
              IF rest.outcome # "ok" THEN rest
              ELSE [rest EXCEPT !.lines = <<line>> \o rest.lines]

\* the write-back of updateTagFile: Truncate(0), Seek(0, 0), the lines
updateTagFileWrite(old, ls) == TruncateAndWrite(old, JoinLines(ls))

\* updateTagFile as a whole: how it ends, what fail() logged, the file left
updateTagFileCall(file, tmpl) ==
    LET scan == updateTagFileScan(ScanLines(file), tmpl) IN
    IF scan.outcome = "panic" THEN [outcome |-> "panic", msg |-> "", file |-> file]
    ELSE IF scan.outcome = "fail"
    THEN [outcome |-> "fail", msg |-> "not semantic versioning", file |-> file]
    ELSE IF ~scan.replaced
    THEN [outcome |-> "fail", msg |-> "failed to replace TAG", file |-> file]
    ELSE [outcome |-> "nil", msg |-> "", file |-> updateTagFileWrite(file, scan.lines)]

----------------------------------------------------------------------------
(* Inputs *)

\* `v\d+`, `v`, and a pattern regexp.Compile rejects
ReVerDigits == [ok |-> TRUE, lit |-> <<"v">>, digits |-> TRUE]
ReVerBare == [ok |-> TRUE, lit |-> <<"v">>, digits |-> FALSE]
ReInvalid == [ok |-> FALSE, lit |-> <<>>, digits |-> FALSE]

\* `{{add . 1}}`, a template rendering no integer, a template that does not parse
TmplAdd1 == [kind |-> "add", delta |-> 1]
TmplText == [kind |-> "text", delta |-> 0]
TmplInvalid == [kind |-> "invalid", delta |-> 0]

\* `{{.Major}}.{{.Minor}}.{{.Rev}}`, `{{.Major}}.{{add .Minor 1}}.{{.Rev}}`,
\* and a template that does not parse
TagTmplIdentity == [ok |-> TRUE, dMajor |-> 0, dMinor |-> 0, dRev |-> 0]
TagTmplMinor == [ok |-> TRUE, dMajor |-> 0, dMinor |-> 1, dRev |-> 0]
TagTmplInvalid == [ok |-> FALSE, dMajor |-> 0, dMinor |-> 0, dRev |-> 0]

Trunk == "master"
ReleaseBranch == "release"
Suffix == <<"-", "r">>

SeqsUpTo(S, n) == UNION {[1..k -> S] : k \in 0..n}

\* every version file of at most MaxVerLen bytes over these characters
VerAlphabet == {"v", "0", "9", NL, CR}
GenVerFiles == SeqsUpTo(VerAlphabet, MaxVerLen)

\* every tag file of at most MaxTagLines newline-terminated lines among these
TagLines == {<<"#", "h">>, <<>>, <<"1", ".", "2", ".", "3">>, <<"b">>,
             <<" ", "#">>, <<"9", ".", "9", ".", "9", " ">>,
             <<"0", "1", ".", "2", ".", "3">>}
GenTagFiles == {JoinLines(ls) : ls \in SeqsUpTo(TagLines, MaxTagLines)}

VerFile41 == <<"v", "4", "1", NL>>
TagFile123 == <<"#", "h", NL, "1", ".", "2", ".", "3", NL>>

\* the files of whole runs
RunVerFiles == {VerFile41, <<"0", NL>>}
RunTagFiles == {TagFile123,
                TagFile123 \o <<"b", NL>>,
                TagFile123 \o <<"2", ".", "0", ".", "0", NL>>,
                <<"#", "h", NL>>}

\* tags the remote may hold when it is cloned (the clone fetches all tags)
RunTagNames == {<<"1", ".", "2", ".", "3">> \o Suffix, <<"1", ".", "2", ".", "3">>}

Tree(v, t) == [ver |-> v, tag |-> t]

\* the state right after gitCloneMaster returned the repository: the clone
\* has the one branch it was asked for, checked out, and every remote tag
InitWith(c, v, t, pre, rel) ==
    /\ cfg = c
    /\ orig = Tree(v, t)
    /\ verFile = v
    /\ tagFile = t
    /\ pc = "gitCheckoutBranch"
    /\ exitCode = -1
    /\ logged = <<>>
    /\ trace = <<>>
    /\ failed = {}
    /\ head = Trunk
    /\ commits = <<[parent |-> 0, msg |-> "initial", tree |-> Tree(v, t)]>>
    /\ localRefs = [b \in {Trunk} |-> 1]
    /\ remoteRefs = [b \in ({Trunk} \cup rel) |-> 1]
    /\ index = Tree(v, t)
    /\ localTags = [n \in pre |-> 1]
    /\ remoteTags = [n \in pre |-> 1]
    /\ branchName = NIL
    /\ tags = <<>>
    /\ tagsToPush = <<>>
    /\ tagsCreated = <<>>
    /\ tagErrs = <<>>
    /\ tagsPushed = <<>>
    /\ pushes = <<>>

Configs(res, tmpls, tagTmpls, suffixes, branches) ==
    [VersionCodeRegex : res, VersionCodeTemplate : tmpls,
     TagFileTemplate : tagTmpls, TagNameSuffix : suffixes, BranchName : branches]

\* whole runs
Init ==
    \E c \in Configs({ReVerDigits, ReInvalid}, {TmplAdd1, TmplText},
                     {TagTmplIdentity, TagTmplMinor}, {<<>>, Suffix},
                     {Trunk, "develop"}),
       v \in RunVerFiles, t \in RunTagFiles, pre \in SUBSET RunTagNames,
       rel \in SUBSET {ReleaseBranch} :
        InitWith(c, v, t, pre, rel)

\* the two mutators on generated files: every generated version file under
\* every version code configuration, and every generated tag file under
\* every tag file template
InitFiles ==
    \/ \E c \in Configs({ReVerDigits, ReVerBare, ReInvalid},
                        {TmplAdd1, TmplText, TmplInvalid},
                        {TagTmplIdentity}, {Suffix}, {Trunk}),
          v \in GenVerFiles :
           InitWith(c, v, TagFile123, {}, {})
    \/ \E c \in Configs({ReVerDigits}, {TmplAdd1},
                        {TagTmplIdentity, TagTmplMinor, TagTmplInvalid},
                        {Suffix}, {Trunk}),
          t \in GenTagFiles :
           InitWith(c, VerFile41, t, {}, {})

----------------------------------------------------------------------------
(* main *)

Running == exitCode = -1

\* fail(): log.Errorf and os.Exit(1)
fail(step, msg) ==
    /\ logged' = Append(logged, [step |-> step, msg |-> msg])
    /\ exitCode' = 1
    /\ pc' = "Failed"
    /\ failed' = failed \cup {step}

\* a Go panic that nothing recovers: the runtime prints it and exits with 2
panic(step) ==
    /\ exitCode' = 2
    /\ pc' = "Panicked"
    /\ failed' = failed \cup {step}
    /\ UNCHANGED logged

\* an error returned to main and dropped there (`_ = f()`)
ignoredError(step, next) ==
    /\ failed' = failed \cup {step}
    /\ pc' = next
    /\ UNCHANGED <<exitCode, logged>>

proceed(next) ==
    /\ pc' = next
    /\ UNCHANGED <<exitCode, logged, failed>>

\* err = gitCheckoutBranch(repo, cfg.BranchName); fail on error
gitCheckoutBranch ==
    /\ pc = "gitCheckoutBranch"
    /\ trace' = Append(trace, "gitCheckoutBranch")
    /\ \E ok \in BOOLEAN :
        IF ok /\ cfg.BranchName \in DOMAIN localRefs
        THEN /\ head' = cfg.BranchName
             /\ proceed("updateBuildNo")
        ELSE /\ fail("gitCheckoutBranch", "gitCheckoutBranch failed")
             /\ UNCHANGED head
    /\ UNCHANGED <<cfg, orig, fileVars, localRefs, remoteRefs, commits, index,
                   localTags, remoteTags, branchName, tagProcVars, pushes>>

\* _ = updateBuildNo(cfg)
updateBuildNo ==
    /\ pc = "updateBuildNo"
    /\ trace' = Append(trace, "updateBuildNo")
    /\ LET r == updateBuildNoCall(verFile, cfg.VersionCodeRegex,
                                  cfg.VersionCodeTemplate) IN
        /\ verFile' = r.file
        /\ CASE r.outcome = "err" -> ignoredError("updateBuildNo", "updateTagFile")
             [] r.outcome = "panic" -> panic("updateBuildNo")
             [] r.outcome = "fail" -> fail("updateBuildNo", "failed")
             [] r.outcome = "nil" -> proceed("updateTagFile")
    /\ UNCHANGED <<cfg, orig, tagFile, gitVars, branchName, tagProcVars, pushes>>

\* _ = updateTagFile(cfg)
updateTagFile ==
    /\ pc = "updateTagFile"
    /\ trace' = Append(trace, "updateTagFile")
    /\ LET r == updateTagFileCall(tagFile, cfg.TagFileTemplate) IN
        /\ tagFile' = r.file
        /\ CASE r.outcome = "panic" -> panic("updateTagFile")
             [] r.outcome = "fail" -> fail("updateTagFile", r.msg)
             [] r.outcome = "nil" -> proceed("gitAddAll")
    /\ UNCHANGED <<cfg, orig, verFile, gitVars, branchName, tagProcVars, pushes>>

\* _ = gitAddAll(repo)
gitAddAll ==
    /\ pc = "gitAddAll"
    /\ trace' = Append(trace, "gitAddAll")
    /\ \E ok \in BOOLEAN :
        IF ok THEN /\ index' = Tree(verFile, tagFile)
                   /\ proceed("gitCommit")
        ELSE /\ ignoredError("gitAddAll", "gitCommit")
             /\ UNCHANGED index
    /\ UNCHANGED <<cfg, orig, fileVars, head, localRefs, remoteRefs, commits,
                   localTags, remoteTags, branchName, tagProcVars, pushes>>

\* wt.Commit: a new commit on the checked-out branch recording the index
Commit(msg) ==
    /\ commits' = Append(commits, [parent |-> localRefs[head], msg |-> msg,
                                   tree |-> index])
    /\ localRefs' = [localRefs EXCEPT ![head] = Len(commits) + 1]

\* _ = gitCommit(repo, "[skip ci] Update version, tagfile")
gitCommit ==
    /\ pc = "gitCommit"
    /\ trace' = Append(trace, "gitCommit")
    /\ \E ok \in BOOLEAN :
        IF ok THEN /\ Commit("[skip ci] Update version, tagfile")
                   /\ proceed("pushTrunk")
        ELSE /\ ignoredError("gitCommit", "pushTrunk")
             /\ UNCHANGED <<commits, localRefs>>
    /\ UNCHANGED <<cfg, orig, fileVars, head, remoteRefs, index,
                   localTags, remoteTags, branchName, tagProcVars, pushes>>

\* what repo.Push of the refspec name:name reports.  The remote or the
\* transport may refuse (envOk = FALSE): "err".  With no local ref of that
\* name, or a remote ref that already equals it, there is nothing to send:
\* "upToDate" (NoErrAlreadyUpToDate).  Else the ref is sent: "ok" (nil)
PushResult(envOk, local, remote, name) ==
    IF ~envOk THEN "err"
    ELSE IF /\ name \in DOMAIN local
            /\ (name \notin DOMAIN remote \/ remote[name] # local[name])
    THEN "ok"
    ELSE "upToDate"

\* the refs of the remote after a Push that reported result
RefsAfterPush(result, local, remote, name) ==
    IF result = "ok"
    THEN [x \in DOMAIN remote \cup {name} |->
             IF x = name THEN local[name] ELSE remote[x]]
    ELSE remote

\* a helper without the NoErrAlreadyUpToDate test: whatever Push reports
\* that is not nil comes back as an error
pushReturnsError_UpToDateIsError(result) == result # "ok"

\* `if err != nil { if err == git.NoErrAlreadyUpToDate { return nil };
\* return err }` of gitPushBranch and gitPushTag: whether the helper returns
\* an error
pushReturnsError(result) == result \notin {"ok", "upToDate"}

\* a gitPushBranch that undoes the earlier pushes when its own push fails
gitPushBranchCall_RollsBack(b, envOk) ==
    LET result == PushResult(envOk, localRefs, remoteRefs, b) IN
    [push |-> result, err |-> pushReturnsError(result),
     remoteRefs |-> IF result = "err" THEN [x \in DOMAIN remoteRefs |-> 1]
                    ELSE RefsAfterPush(result, localRefs, remoteRefs, b)]

\* gitPushBranch: repo.Push of refs/heads/b
gitPushBranchCall(b, envOk) ==
    LET result == PushResult(envOk, localRefs, remoteRefs, b) IN
    [push |-> result, err |-> pushReturnsError(result),
     remoteRefs |-> RefsAfterPush(result, localRefs, remoteRefs, b)]

\* the entry a push leaves in the history of pushes
Pushed(step, kind, ref, r) ==
    Append(pushes, [step |-> step, kind |-> kind, ref |-> ref,
                    result |-> r.push, err |-> r.err])

\* the branch main pushes after the commit
TrunkPushTarget == Trunk

\* if err := gitPushBranch(repo, pk, "master"); err != nil { fail(...) }
pushTrunk ==
    /\ pc = "pushTrunk"
    /\ trace' = Append(trace, "pushTrunk")
    /\ \E envOk \in BOOLEAN :
        LET r == gitPushBranchCall(TrunkPushTarget, envOk) IN
        /\ remoteRefs' = r.remoteRefs
        /\ pushes' = Pushed("pushTrunk", "branch", TrunkPushTarget, r)
        /\ IF r.err THEN fail("pushTrunk", "gitPushBranch failed")
           ELSE proceed("forkNewReleaseBranch")
    /\ UNCHANGED <<cfg, orig, fileVars, head, localRefs, commits, index,
                   localTags, remoteTags, branchName, tagProcVars>>

\* a marker commit that records no parent
markerCommit_Orphan(parent) ==
    [parent |-> 0, msg |-> "diverge from master", tree |-> index]

\* wt.Commit("diverge from master", ...): the commit it creates on top of
\* the commit the new branch was created at
markerCommit(parent) ==
    [parent |-> parent, msg |-> "diverge from master", tree |-> index]

\* branchName, _ := forkNewReleaseBranch(repo, cfg)
\*   the checkout with Create may fail: nil, error
\*   the marker commit may fail after the checkout: nil, error
\*   else the rendered branch name
forkNewReleaseBranch ==
    /\ pc = "forkNewReleaseBranch"
    /\ trace' = Append(trace, "forkNewReleaseBranch")
    /\ \E env \in {"ok", "checkoutErr", "commitErr"} :
        IF env = "checkoutErr" \/ ReleaseBranch \in DOMAIN localRefs
        THEN /\ branchName' = NIL
             /\ ignoredError("forkNewReleaseBranch", "pushRelease")
             /\ UNCHANGED <<head, localRefs, commits>>
        ELSE LET forked == [b \in DOMAIN localRefs \cup {ReleaseBranch} |->
                               IF b = ReleaseBranch THEN localRefs[head]
                               ELSE localRefs[b]] IN
             /\ head' = ReleaseBranch
             /\ IF env = "commitErr"
                THEN /\ localRefs' = forked
                     /\ branchName' = NIL
                     /\ ignoredError("forkNewReleaseBranch", "pushRelease")
                     /\ UNCHANGED commits
                ELSE /\ commits' = Append(commits, markerCommit(localRefs[head]))
                     /\ localRefs' = [forked EXCEPT ![ReleaseBranch] = Len(commits) + 1]
                     /\ branchName' = ReleaseBranch
                     /\ proceed("pushRelease")
    /\ UNCHANGED <<cfg, orig, fileVars, remoteRefs, index, localTags,
                   remoteTags, tagProcVars, pushes>>

\* if err := gitPushBranch(repo, pk, *branchName); err != nil { fail(...) }
\* Dereferencing the nil a failed fork returned panics before the call
pushRelease ==
    /\ pc = "pushRelease"
    /\ IF branchName = NIL
       THEN /\ panic("pushRelease")
            /\ UNCHANGED <<trace, remoteRefs, pushes>>
       ELSE /\ trace' = Append(trace, "pushRelease")
            /\ \E envOk \in BOOLEAN :
                LET r == gitPushBranchCall(branchName, envOk) IN
                /\ remoteRefs' = r.remoteRefs
                /\ pushes' = Pushed("pushRelease", "branch", branchName, r)
                /\ IF r.err
                   THEN fail("pushRelease",
                             "forkNewReleaseBranch & subsequent gitPushBranch failed")
                   ELSE proceed("processTagFile")
    /\ UNCHANGED <<cfg, orig, fileVars, head, localRefs, commits, index,
                   localTags, remoteTags, branchName, tagProcVars>>

----------------------------------------------------------------------------
(* processTagFile *)

RECURSIVE pendingTags(_)
\* the first loop: the trimmed lines that are not empty and not comments
pendingTags(ls) ==
    IF ls = <<>> THEN <<>>
    ELSE LET line == TrimSpace(Head(ls)) IN
         IF ~HasPrefix(line, <<"#">>) /\ line # <<>>
         THEN <<line>> \o pendingTags(Tail(ls))
         ELSE pendingTags(Tail(ls))

\* main returns after processTagFile returned nil
mainReturns ==
    /\ pc' = "Done"
    /\ exitCode' = 0
    /\ UNCHANGED <<logged, failed>>

\* processTagFile up to the tag loop; with no pending tag it returns nil
processTagFile ==
    /\ pc = "processTagFile"
    /\ trace' = Append(trace, "processTagFile")
    /\ tags' = pendingTags(ScanLines(tagFile))
    /\ IF Len(tags') = 0 THEN mainReturns ELSE proceed("gitTag")
    /\ UNCHANGED <<cfg, orig, fileVars, gitVars, branchName, tagsToPush,
                   tagsCreated, tagErrs, tagsPushed, pushes>>

\* gitTag: repo.CreateTag at HEAD; every error comes back wrapped in a new
\* error made by errors.New
gitTagCall(tagName, envOk) ==
    IF tagName \in DOMAIN localTags
    THEN [err |-> TRUE, wrapped |-> TRUE, cause |-> "ErrTagExists"]
    ELSE IF ~envOk THEN [err |-> TRUE, wrapped |-> TRUE, cause |-> "other"]
    ELSE [err |-> FALSE, wrapped |-> FALSE, cause |-> ""]

\* a test that takes every error of gitTag for the recoverable one
isErrTagExists_AnyError(e) == e.err

\* `err == git.ErrTagExists`: the error value is the sentinel itself
isErrTagExists(e) == e.err /\ ~e.wrapped /\ e.cause = "ErrTagExists"

\* a gitTag that tags the tip of the trunk
tagTarget_TrunkTip == localRefs[Trunk]

\* `head, _ := repo.Head()` and head.Hash(): the commit gitTag tags
tagTarget == localRefs[head]

\* the name processTagFile queues for the push loop
tagToPush(tag, newTagName) == tag

\* one round of `for _, tag := range tags`
gitTag ==
    /\ pc = "gitTag"
    /\ LET tag == tags[Len(tagsToPush) + 1]
           newTagName == tag \o cfg.TagNameSuffix
       IN
       /\ tagsCreated' = Append(tagsCreated, newTagName)
       /\ \E envOk \in BOOLEAN :
           LET e == gitTagCall(newTagName, envOk) IN
           /\ tagErrs' = IF e.err THEN Append(tagErrs, e.cause) ELSE tagErrs
           /\ localTags' = IF e.err THEN localTags
                           ELSE [n \in DOMAIN localTags \cup {newTagName} |->
                                    IF n = newTagName THEN tagTarget
                                    ELSE localTags[n]]
           /\ IF e.err /\ ~isErrTagExists(e)
              THEN /\ fail("processTagFile", "processTagFile failed")
                   /\ UNCHANGED tagsToPush
              ELSE /\ tagsToPush' = Append(tagsToPush, tagToPush(tag, newTagName))
                   /\ IF e.err
                      THEN /\ logged' = Append(logged,
                                  [step |-> "processTagFile", msg |-> "WARN"])
                           /\ pc' = IF Len(tagsToPush') = Len(tags)
                                    THEN "gitPushTag" ELSE "gitTag"
                           /\ UNCHANGED <<exitCode, failed>>
                      ELSE proceed(IF Len(tagsToPush') = Len(tags)
                                   THEN "gitPushTag" ELSE "gitTag")
    /\ UNCHANGED <<cfg, orig, fileVars, head, localRefs, remoteRefs, commits,
                   index, remoteTags, branchName, trace, tags, tagsPushed,
                   pushes>>

\* gitPushTag: repo.Push of refs/tags/name
gitPushTagCall(tagName, envOk) ==
    LET result == PushResult(envOk, localTags, remoteTags, tagName) IN
    [push |-> result, err |-> pushReturnsError(result),
     remoteTags |-> RefsAfterPush(result, localTags, remoteTags, tagName)]

\* one round of `for _, tagToPush := range tagsToPush`
gitPushTag ==
    /\ pc = "gitPushTag"
    /\ LET name == tagsToPush[Len(tagsPushed) + 1] IN
       /\ tagsPushed' = Append(tagsPushed, name)
       /\ \E envOk \in BOOLEAN :
           LET r == gitPushTagCall(name, envOk) IN
           /\ remoteTags' = r.remoteTags
           /\ pushes' = Pushed("processTagFile", "tag", name, r)
           /\ IF r.err THEN fail("processTagFile", "processTagFile failed")
              ELSE IF Len(tagsPushed') = Len(tagsToPush) THEN mainReturns
              ELSE proceed("gitPushTag")
    /\ UNCHANGED <<cfg, orig, fileVars, head, localRefs, remoteRefs, commits,
                   index, localTags, branchName, trace, tags, tagsToPush,
                   tagsCreated, tagErrs>>

----------------------------------------------------------------------------
(* Specifications *)

Next ==
    \/ gitCheckoutBranch
    \/ updateBuildNo
    \/ updateTagFile
    \/ gitAddAll
    \/ gitCommit
    \/ pushTrunk
    \/ forkNewReleaseBranch
    \/ pushRelease
    \/ processTagFile
    \/ gitTag
    \/ gitPushTag

Spec == Init /\ [][Next]_vars

\* main up to and including the two mutators
NextFiles ==
    \/ gitCheckoutBranch
    \/ updateBuildNo
    \/ updateTagFile

SpecFiles == InitFiles /\ [][NextFiles]_vars

----------------------------------------------------------------------------
(* Properties of the orchestrator *)

\* the order of the steps of main
Order == <<"gitCheckoutBranch", "updateBuildNo", "updateTagFile", "gitAddAll",
           "gitCommit", "pushTrunk", "forkNewReleaseBranch", "pushRelease",
           "processTagFile">>

Attempted(step) == \E i \in 1..Len(trace) : trace[i] = step

IsPrefix(s, t) == Len(s) <= Len(t) /\ \A i \in 1..Len(s) : s[i] = t[i]

\* C1: a failure of any step moves the run to Failed and no later step runs;
\* in particular the trunk push is never attempted after updateBuildNo,
\* updateTagFile, gitAddAll or gitCommit returned an error.
C1_FailureHalts ==
    /\ failed # {} => pc = "Failed"
    /\ \A i \in 1..(Len(trace) - 1) : trace[i] \notin failed
    /\ Attempted("pushTrunk") =>
          failed \cap {"updateBuildNo", "updateTagFile", "gitAddAll", "gitCommit"} = {}

\* C2: the steps happen in the order checkout, version file, tag file,
\* commit, trunk push, fork, release push, tags; each at most once and each
\* only after the previous one completed successfully; no tag is created
\* before the release branch was pushed.
C2_StepOrder ==
    /\ IsPrefix(trace, Order)
    /\ \A i \in 1..(Len(trace) - 1) : trace[i] \notin failed
    /\ tagsCreated # <<>> =>
          Attempted("pushRelease") /\ "pushRelease" \notin failed

\* C3: when forkNewReleaseBranch fails, the run ends in Failed with a logged
\* error, neither the release branch push nor any tag creation or push is
\* attempted, and the pushed trunk stays in place.  Stated for the runs in
\* which every step before the fork succeeded.
C3_ForkFailureIsFatal ==
    (/\ "forkNewReleaseBranch" \in failed
     /\ failed \subseteq {"forkNewReleaseBranch", "pushRelease"}
     /\ ~Running) =>
        /\ pc = "Failed"
        /\ exitCode = 1
        /\ logged # <<>>
        /\ ~Attempted("pushRelease")
        /\ tagsCreated = <<>> /\ tagsPushed = <<>>
        /\ remoteRefs[Trunk] = localRefs[Trunk]

\* C4: the exit code is 0 exactly when every step ran and succeeded, and it
\* is 1, with a diagnostic logged, whenever a step failed; no other exit code.
C4_ExitCode ==
    ~Running =>
        /\ exitCode \in {0, 1}
        /\ exitCode = 0 <=> (trace = Order /\ failed = {})
        /\ failed # {} => (exitCode = 1 /\ logged # <<>>)

----------------------------------------------------------------------------
(* Properties of the tag processor *)

Warnings == {i \in 1..Len(logged) : logged[i].msg = "WARN"}

\* C5: a tag that already exists locally is recoverable: a warning is logged,
\* the remaining names are still created, the push phase runs and
\* processTagFile returns no error because of it.  Stated for the runs in
\* which every step before processTagFile succeeded.
C5_ExistingTagIsRecoverable ==
    (/\ tagErrs # <<>>
     /\ \A i \in 1..Len(tagErrs) : tagErrs[i] = "ErrTagExists"
     /\ failed \subseteq {"processTagFile"}) =>
        /\ Cardinality(Warnings) = Len(tagErrs)
        /\ ~(pc = "Failed" /\ tagsPushed = <<>>)
        /\ ~Running => Len(tagsCreated) = Len(tags)

\* C6: the names pushed are the names created: the i-th name pushed is the
\* i-th pending base name followed by the configured suffix.  Stated for the
\* runs in which no step failed.
C6_PushedNamesAreCreatedNames ==
    \A i \in 1..Len(tagsPushed) :
        failed = {} =>
        /\ tagsPushed[i] = tags[i] \o cfg.TagNameSuffix
        /\ tagsPushed[i] = tagsCreated[i]

\* C7: only the qualifying lines after the first qualifying (semantic
\* version) line become tags: the i-th tag created and the i-th tag pushed
\* carry the (i+1)-th qualifying line and the suffix.  Stated for the runs
\* in which no step failed.
C7_OnlyLaterLinesBecomeTags ==
    LET q == pendingTags(ScanLines(tagFile)) IN
    failed = {} =>
    /\ \A i \in 1..Len(tagsCreated) :
          i + 1 <= Len(q) /\ tagsCreated[i] = q[i + 1] \o cfg.TagNameSuffix
    /\ \A i \in 1..Len(tagsPushed) :
          i + 1 <= Len(q) /\ tagsPushed[i] = q[i + 1] \o cfg.TagNameSuffix

----------------------------------------------------------------------------
(* Properties of the two mutators *)

Succeeded(step) == Attempted(step) /\ step \notin failed

\* the lines of a file that the version regex matches
MatchingLines(re, ls) == {i \in 1..Len(ls) : MatchString(re, ls[i])}

\* position of the first digit of a line that has one
FirstDigitPos(line) ==
    CHOOSE i \in 1..Len(line) :
        line[i] \in Digits /\ \A j \in 1..(i - 1) : line[j] \notin Digits

\* new is old with its first digit run replaced by a digit run of value n
FirstRunBecomes(old, new, n) ==
    LET p == FirstDigitPos(old)
        k == DigitRunLen(old, p)
        m == DigitRunLen(new, p)
    IN /\ m > 0
       /\ DigitsValue(SubSeq(new, p, p + m - 1)) = n
       /\ SubSeq(new, 1, p - 1) = SubSeq(old, 1, p - 1)
       /\ SubSeq(new, p + m, Len(new)) = SubSeq(old, p + k, Len(old))

\* C8: with exactly one line matching the version regex, its first digit run
\* being V, and the template `{{add . 1}}`, updateBuildNo leaves a file in
\* which that line's first digit run is V+1, the rest of the line is
\* unchanged and every other line is identical to the input.
C8_IncrementsTheOneMatchingLine ==
    LET in == ScanLines(orig.ver)
        out == ScanLines(verFile)
        re == cfg.VersionCodeRegex
        m == MatchingLines(re, in)
    IN (/\ Attempted("updateBuildNo")
        /\ re.ok /\ cfg.VersionCodeTemplate = TmplAdd1
        /\ Cardinality(m) = 1
        /\ \A i \in m : FindDigits(in[i]) # <<>>) =>
           /\ "updateBuildNo" \notin failed
           /\ Len(out) = Len(in)
           /\ \A i \in 1..Len(in) :
                 IF i \in m
                 THEN FirstRunBecomes(in[i], out[i], DigitsValue(FindDigits(in[i])) + 1)
                 ELSE out[i] = in[i]

\* C9: with no line matching the version regex updateBuildNo fails fatally
\* and the version file is what it was before the call; with no qualifying
\* line updateTagFile fails fatally and the tag file is what it was.
C9_NoMatchLeavesFileIntact ==
    /\ (/\ Attempted("updateBuildNo")
        /\ cfg.VersionCodeRegex.ok
        /\ MatchingLines(cfg.VersionCodeRegex, ScanLines(orig.ver)) = {}) =>
           /\ pc = "Failed" /\ exitCode = 1
           /\ logged = <<[step |-> "updateBuildNo", msg |-> "failed"]>>
           /\ verFile = orig.ver
    /\ (/\ Attempted("updateTagFile")
        /\ \A i \in 1..Len(ScanLines(orig.tag)) : ~Qualifies(ScanLines(orig.tag)[i])) =>
           /\ pc = "Failed" /\ exitCode = 1
           /\ logged = <<[step |-> "updateTagFile", msg |-> "failed to replace TAG"]>>
           /\ tagFile = orig.tag

\* a run in which updateBuildNo found no match in a file of several lines
\* that a rewrite would have changed
C9_Witness ==
    /\ pc = "Failed"
    /\ trace = <<"gitCheckoutBranch", "updateBuildNo">>
    /\ cfg.VersionCodeRegex.ok
    /\ Len(ScanLines(orig.ver)) >= 2
    /\ JoinLines(ScanLines(orig.ver)) # orig.ver
    /\ verFile = orig.ver

\* the qualifying lines of a tag file, as updateTagFile sees them
QualifyingLines(ls) == {i \in 1..Len(ls) : Qualifies(ls[i])}

\* new is exactly MAJOR.MINOR.REV with the numbers of old's leftmost
\* semantic version, each raised by what the template adds
IsRendered(old, new, tmpl) ==
    LET a == FindStringSubmatch(old)
        b == SemverAt(new, 1)
    IN /\ b.ok
       /\ new = b.Major \o <<".">> \o b.Minor \o <<".">> \o b.Rev
       /\ DigitsValue(b.Major) = DigitsValue(a.Major) + tmpl.dMajor
       /\ DigitsValue(b.Minor) = DigitsValue(a.Minor) + tmpl.dMinor
       /\ DigitsValue(b.Rev) = DigitsValue(a.Rev) + tmpl.dRev

FirstQualifying(ls) ==
    IF QualifyingLines(ls) = {} THEN 0
    ELSE CHOOSE i \in QualifyingLines(ls) : \A j \in QualifyingLines(ls) : i <= j

\* the line is MAJOR.MINOR.PATCH and nothing else
IsSemver(line) ==
    LET m == SemverAt(line, 1) IN
    m.ok /\ line = m.Major \o <<".">> \o m.Minor \o <<".">> \o m.Rev

\* the three integers of a line that is MAJOR.MINOR.PATCH
ThreeIntegers(line) ==
    LET m == SemverAt(line, 1) IN
    <<DigitsValue(m.Major), DigitsValue(m.Minor), DigitsValue(m.Rev)>>

\* new carries the three integers of old, each changed by what the template
\* adds to it and by nothing else
RoundTrips(old, new, tmpl) ==
    /\ IsSemver(new)
    /\ ThreeIntegers(new)[1] = ThreeIntegers(old)[1] + tmpl.dMajor
    /\ ThreeIntegers(new)[2] = ThreeIntegers(old)[2] + tmpl.dMinor
    /\ ThreeIntegers(new)[3] = ThreeIntegers(old)[3] + tmpl.dRev

----------------------------------------------------------------------------
(* Properties of the pushes, the fork and the absence of rollback *)

LastPush == pushes[Len(pushes)]

TagPushes == {i \in 1..Len(pushes) : pushes[i].kind = "tag"}

\* C12: a branch push or a tag push that reports 'already up to date'
\* returns success, the run does not fail because of it and the steps after
\* it, the pushes of the remaining tags included, still execute; any other
\* push error is returned, makes the run fail and stops the remaining
\* pushes.
C12_UpToDateIsSuccess ==
    /\ \A i \in 1..Len(pushes) :
          /\ pushes[i].result = "upToDate" => ~pushes[i].err
          /\ pushes[i].result = "err" => pushes[i].err
          /\ pushes[i].err => i = Len(pushes)
          /\ (pushes[i].kind = "branch" /\ ~pushes[i].err) =>
                pushes[i].step \notin failed
    /\ (pushes # <<>> /\ LastPush.err) =>
          /\ pc = "Failed" /\ exitCode = 1
          /\ LastPush.step \in failed
    /\ (pushes # <<>> /\ ~LastPush.err) =>
          /\ (LastPush.step = "pushTrunk" /\ trace[Len(trace)] = "pushTrunk") =>
                pc = "forkNewReleaseBranch"
          /\ (LastPush.step = "pushRelease" /\ trace[Len(trace)] = "pushRelease") =>
                pc = "processTagFile"
          /\ LastPush.kind = "tag" =>
                pc = IF Cardinality(TagPushes) = Len(tagsToPush)
                     THEN "Done" ELSE "gitPushTag"
    /\ pc = "Done" => Cardinality(TagPushes) = Len(tagsToPush)

\* a finished run whose trunk push and whose first tag push reported
\* 'already up to date', each followed by further pushes
C12_Witness ==
    /\ pc = "Done" /\ exitCode = 0
    /\ Len(pushes) >= 4
    /\ pushes[1].step = "pushTrunk" /\ pushes[1].result = "upToDate"
    /\ pushes[2].step = "pushRelease" /\ pushes[2].result = "ok"
    /\ pushes[3].kind = "tag" /\ pushes[3].result = "upToDate"
    /\ pushes[4].kind = "tag"

\* C13: a successful forkNewReleaseBranch leaves the working tree on the
\* release branch; the release branch ref points to a new commit whose
\* parent is the commit that was HEAD, the tip of the trunk, when the fork
\* started; the release branch ref differs from the trunk ref, and the
\* local trunk ref is what it was before the fork.
C13_ForkDivergesFromTrunk ==
    [][(forkNewReleaseBranch /\ "forkNewReleaseBranch" \notin failed') =>
          /\ head' = ReleaseBranch /\ branchName' = ReleaseBranch
          /\ localRefs'[ReleaseBranch] \notin 1..Len(commits)
          /\ commits'[localRefs'[ReleaseBranch]].parent = localRefs[head]
          /\ localRefs[head] = localRefs[Trunk]
          /\ localRefs'[ReleaseBranch] # localRefs'[Trunk]
          /\ localRefs'[Trunk] = localRefs[Trunk]
          /\ \A c \in 1..Len(commits) : commits'[c] = commits[c]]_vars

\* the fork succeeded on a trunk that carries the commit of this run
C13_Witness ==
    /\ Succeeded("forkNewReleaseBranch")
    /\ head = ReleaseBranch
    /\ localRefs[Trunk] = 2
    /\ commits[localRefs[ReleaseBranch]] =
          [parent |-> 2, msg |-> "diverge from master", tree |-> index]

\* what the completed pushes left on the remote is there in every later
\* state, the failed ones included
PushedRefsStay ==
    /\ Succeeded("pushTrunk") =>
          /\ Trunk \in DOMAIN remoteRefs
          /\ remoteRefs[Trunk] = localRefs[Trunk]
    /\ Succeeded("pushRelease") =>
          /\ ReleaseBranch \in DOMAIN remoteRefs
          /\ remoteRefs[ReleaseBranch] = localRefs[ReleaseBranch]
    /\ \A i \in TagPushes :
          pushes[i].result = "ok" =>
             /\ pushes[i].ref \in DOMAIN remoteTags
             /\ remoteTags[pushes[i].ref] = localTags[pushes[i].ref]

\* no step, failing or not, takes back the effect of an earlier step
StepKeepsEffects ==
    /\ IsPrefix(commits, commits')
    /\ IsPrefix(trace, trace') /\ failed \subseteq failed'
    /\ \A b \in DOMAIN remoteRefs :
          /\ b \in DOMAIN remoteRefs'
          /\ remoteRefs'[b] # remoteRefs[b] =>
                remoteRefs'[b] = localRefs[b] /\ remoteRefs'[b] > remoteRefs[b]
    /\ \A b \in DOMAIN localRefs :
          b \in DOMAIN localRefs' /\ localRefs'[b] >= localRefs[b]
    /\ \A n \in DOMAIN localTags :
          n \in DOMAIN localTags' /\ localTags'[n] = localTags[n]
    /\ \A n \in DOMAIN remoteTags : n \in DOMAIN remoteTags'
    /\ Attempted("updateBuildNo") => verFile' = verFile
    /\ Attempted("updateTagFile") => tagFile' = tagFile

\* C14: there is no rollback: once a step has completed its effect
\* persists in every later state, Failed included; the remote trunk keeps
\* the pushed commit when the fork, the release branch push or a tag
\* creation or push fails afterwards, and a pushed release branch persists
\* when tag processing fails.
C14_NoRollback == []PushedRefsStay /\ [][StepKeepsEffects]_vars

\* tag processing failed after the trunk, carrying the commit of this run,
\* and the release branch were pushed
C14_Witness ==
    /\ pc = "Failed" /\ "processTagFile" \in failed
    /\ Succeeded("pushTrunk") /\ Succeeded("pushRelease")
    /\ commits[remoteRefs[Trunk]].msg = "[skip ci] Update version, tagfile"
    /\ ReleaseBranch \in DOMAIN remoteRefs
    /\ commits[remoteRefs[ReleaseBranch]].msg = "diverge from master"

----------------------------------------------------------------------------
(* Further properties of the version code mutator *)

\* C15: after a successful updateBuildNo the version file is exactly the
\* lines, mutated where they matched, in their order, each followed by one
\* newline, and nothing else: no byte of the previous content is left
\* behind the last line, also when the new content is shorter than the old.
\* Stated for the template `{{add . 1}}`.
C15_FileIsExactlyTheLines ==
    LET re == cfg.VersionCodeRegex
        scan == updateBuildNoScan(ScanLines(orig.ver), re, cfg.VersionCodeTemplate)
    IN (/\ Succeeded("updateBuildNo")
        /\ re.ok /\ cfg.VersionCodeTemplate = TmplAdd1) =>
           verFile = JoinLines(scan.lines)

\* the parse failures of updateBuildNo: the regex does not compile, or a
\* line matches, its digit run parses, and the template does not parse or
\* renders something that is no integer
ParseFailure ==
    LET re == cfg.VersionCodeRegex
        in == ScanLines(orig.ver)
    IN \/ ~re.ok
       \/ /\ cfg.VersionCodeTemplate.kind # "add"
          /\ MatchingLines(re, in) # {}
          /\ \A i \in MatchingLines(re, in) : FindDigits(in[i]) # <<>>

\* C16: a parse failure in updateBuildNo is fatal and leaves the version
\* file as it was: the run fails, nothing is written, committed or pushed,
\* and the version code never silently becomes 0.
C16_ParseFailuresAreFatal ==
    (Attempted("updateBuildNo") /\ ParseFailure) =>
        /\ pc = "Failed" /\ exitCode = 1 /\ logged # <<>>
        /\ verFile = orig.ver
        /\ Len(commits) = 1
        /\ pushes = <<>>

\* C18: when several lines match the version regex, updateBuildNo changes
\* the first matching line only; every other line, a later matching line
\* included, is written back unchanged.
C18_OnlyFirstMatchingLineChanges ==
    LET in == ScanLines(orig.ver)
        out == ScanLines(verFile)
        m == MatchingLines(cfg.VersionCodeRegex, in)
    IN (/\ Succeeded("updateBuildNo")
        /\ cfg.VersionCodeRegex.ok
        /\ Cardinality(m) > 1) =>
           \A i \in 1..Len(in) :
               (\E j \in m : j < i) \/ i \notin m =>
                   i <= Len(out) /\ out[i] = in[i]

----------------------------------------------------------------------------
(* Further properties of the orchestrator and the tag processor *)

\* gitTag returned an error that made processTagFile return: the name was
\* handed to gitTag and not queued for the push loop
FatalTagError == pc = "Failed" /\ Len(tagsCreated) > Len(tagsToPush)

\* C17: in processTagFile every local tag creation is attempted before the
\* first tag push; a fatal tag creation error on the i-th pending name means
\* that no later name is created and that no tag at all is pushed.
C17_CreationsBeforePushes ==
    /\ TagPushes # {} => (Len(tagsCreated) = Len(tags) /\ ~FatalTagError)
    /\ (\E i \in 1..Len(tagErrs) : tagErrs[i] = "other") => FatalTagError
    /\ FatalTagError =>
          /\ "processTagFile" \in failed /\ exitCode = 1
          /\ Len(tagsCreated) = Len(tagsToPush) + 1
          /\ \A i \in 1..Len(tagsCreated) :
                tagsCreated[i] = tags[i] \o cfg.TagNameSuffix
          /\ TagPushes = {} /\ tagsPushed = <<>>
          /\ \A n \in DOMAIN remoteTags : remoteTags[n] = 1

\* the creation of the first of two pending names failed fatally
C17_Witness ==
    /\ FatalTagError
    /\ Len(tags) = 2
    /\ Len(tagsCreated) = 1
    /\ tagErrs = <<"other">>
    /\ TagPushes = {}

\* C19: whatever branch name is configured, the branch main pushes in the
\* trunk push is the branch it checked out and committed to: once the trunk
\* push succeeded, the remote ref of the checked-out branch points to the
\* commit '[skip ci] Update version, tagfile' of this run.  Stated for the
\* runs in which the two mutators and gitAddAll succeeded.
C19_PushedBranchIsCommittedBranch ==
    (/\ Succeeded("pushTrunk")
     /\ failed \cap {"updateBuildNo", "updateTagFile", "gitAddAll"} = {}) =>
        /\ cfg.BranchName \in DOMAIN remoteRefs
        /\ remoteRefs[cfg.BranchName] # 1
        /\ commits[remoteRefs[cfg.BranchName]].msg =
              "[skip ci] Update version, tagfile"

\* the tags queued for the push loop are tags of the tip of the release
\* branch
QueuedTagsAreAtTheMarker ==
    \A i \in 1..Len(tagsToPush) :
        /\ tagsCreated[i] \in DOMAIN localTags
        /\ localTags[tagsCreated[i]] = localRefs[ReleaseBranch]

\* a tag that a step creates is a tag of HEAD, the marker commit of the
\* release branch, which the remote release branch already has; a tag that
\* a step sends to the remote points to a commit the remote release branch
\* already has
TagStepsUseThePushedMarker ==
    /\ \A n \in DOMAIN localTags' \ DOMAIN localTags :
          /\ head = ReleaseBranch
          /\ localTags'[n] = localRefs[ReleaseBranch]
          /\ localTags'[n] # localRefs[Trunk]
          /\ commits[localTags'[n]].msg = "diverge from master"
          /\ ReleaseBranch \in DOMAIN remoteRefs
          /\ remoteRefs[ReleaseBranch] = localTags'[n]
    /\ \A n \in DOMAIN remoteTags' :
          (n \notin DOMAIN remoteTags \/ remoteTags'[n] # remoteTags[n]) =>
             /\ ReleaseBranch \in DOMAIN remoteRefs
             /\ remoteRefs[ReleaseBranch] = remoteTags'[n]

\* C20: every tag processTagFile creates in a run points to one commit, HEAD
\* when tag processing starts, which is the marker commit of the release
\* branch and not the trunk commit; that commit is on the remote release
\* branch before any tag that refers to it is pushed.
C20_TagsPointAtThePushedMarker ==
    []QueuedTagsAreAtTheMarker /\ [][TagStepsUseThePushedMarker]_vars

\* a finished run that created two tags and pushed them, both at the marker
\* commit of the release branch
C20_Witness ==
    /\ pc = "Done"
    /\ Len(tagsToPush) = 2
    /\ tagsCreated[1] # tagsCreated[2]
    /\ \A i \in 1..2 :
          /\ tagsCreated[i] \in DOMAIN remoteTags
          /\ remoteTags[tagsCreated[i]] = localRefs[ReleaseBranch]
    /\ commits[localRefs[ReleaseBranch]].msg = "diverge from master"
    /\ localRefs[ReleaseBranch] # localRefs[Trunk]

====
